---- MODULE Spec2Model ----
(***************************************************************************)
(* Model of lib/slp_graph_search.py: GraphSearchJob and                    *)
(* SlpGraphSearchManager.  One dedicated worker thread runs mainloop and   *)
(* search_query; caller threads run new_search, restart_search and         *)
(* sched_cancel.  Every Python statement that reads or writes state shared *)
(* between threads is a step of its own, so that the interleavings the     *)
(* interpreter allows between statements are interleavings of the model.   *)
(***************************************************************************)
EXTENDS Integers, Sequences, FiniteSets, TLC

\* ------------------------------------------------------------------ bounds
\* number of calls of new_search / restart_search / sched_cancel made by
\* caller threads; every job is created by one of them, so it also bounds
\* the number of jobs (SpecWide allows one call more)
MaxCalls == 2
\* number of chunks one response stream delivers at most
MaxChunks == 1
\* number of entries of a txdata list at most
MaxTxns == 1

\* ------------------------------------------------------------ the universe
Callers == {"c1", "c2"}
Worker == "worker"
Threads == Callers \cup {Worker}
\* root txids; the validation job of a root txid is identified with it
Txids == {"aa", "bb"}
\* callbacks a caller passes to sched_cancel directly (None is the default)
CallerCallbacks == {"None", "cbA"}
\* the closure restart_search builds
RestartCallback == "restart"
\* base64 entries of a txdata list: two that decode, one that does not
Payloads == {"txA", "txB", "bad"}
NoJob == 0

\* ------------------------------------------------------- exception texts
TypeErrorMsg == "the JSON object must be str, bytes or bytearray, not dict"
JSONDecodeErrorMsg == "Expecting value: line 1 column 1 (char 0)"
KeyErrorMsg == "'error'"
B64ErrorMsg == "Incorrect padding"
ConnectionErrorMsg == "connection error"
EmptyErrorDictMsg == "{'error': ''}"

VARIABLES
    jobs,            \* every GraphSearchJob ever constructed, by creation index
    search_jobs,     \* SlpGraphSearchManager.search_jobs: root_txid -> job
    search_queue,    \* SlpGraphSearchManager.search_queue
    lock,            \* SlpGraphSearchManager.lock: its holder, or "free"
    data_totalizer,  \* SlpGraphSearchManager.data_totalizer
    emit_ui_update,  \* SlpGraphSearchManager.emit_ui_update is set
    valjob,          \* the validation jobs: running, has_never_run
    pc,              \* each thread's position
    loc,             \* each thread's locals
    w,               \* the worker's locals inside search_query
    calls_left,      \* calls the caller threads may still make
    queue_log,       \* history: every job put on search_queue, in order
    deq_log,         \* history: every job the worker got, in order
    wakeup_log,      \* history: jobs on whose behalf valjob.wakeup was set
    handles,         \* history: the jobs new_search returned to caller threads
    ret,             \* history: the job the latest new_search call returned
    clock,           \* time.time(), in seconds
    nobj,            \* the Transaction objects constructed so far
    tx_log           \* history: every put_tx and get_tx call, in order

vars == <<jobs, search_jobs, search_queue, lock, data_totalizer, emit_ui_update,
          valjob, pc, loc, w, calls_left, queue_log, deq_log, wakeup_log, handles,
          ret, clock, nobj, tx_log>>

JobIds == 1..Len(jobs)

\* --------------------------------------------------------- GraphSearchJob
\* GraphSearchJob.__init__; posted, completed_by and cb_calls are history
\* fields: a request was posted for the job, the methods that set
\* job_complete, and the callbacks _cancel invoked
GraphSearchJob(txid, valjob_ref) ==
    [root_txid |-> txid,
     valjob |-> valjob_ref,
     search_started |-> FALSE,
     search_success |-> "None",
     job_complete |-> FALSE,
     exit_msg |-> "None",
     txn_count_progress |-> 0,
     gs_response_size |-> 0,
     waiting_to_cancel |-> FALSE,
     cancel_callback |-> "None",
     txdata |-> <<>>,
     posted |-> FALSE,
     completed_by |-> <<>>,
     cb_calls |-> <<>>]

\* The methods that complete a job assign its fields one after the other,
\* and other threads run in between: each is modelled in two steps, the
\* assignments up to the first of search_success and job_complete, and the
\* rest.

\* _cancel without its line 72
_cancel_skips(job) == job

\* GraphSearchJob._cancel, line 72
_cancel_first(job) ==
    [job EXCEPT !.job_complete = TRUE,
                !.completed_by = Append(@, "_cancel")]

\* GraphSearchJob._cancel, lines 73-75: the callback, when one is stored, is
\* called with the job; the body of the restart callback is run by the
\* calling thread in the steps after this one
_cancel_rest(job) ==
    [job EXCEPT !.search_success = "False",
                !.cb_calls = IF job.cancel_callback # "None"
                             THEN Append(@, job.cancel_callback) ELSE @]

\* GraphSearchJob.set_success, line 78
set_success_first(job) == [job EXCEPT !.search_success = "True"]

\* set_success that leaves the job incomplete
set_success_forgets(job) == job

\* GraphSearchJob.set_success, line 79
set_success_rest(job) ==
    [job EXCEPT !.job_complete = TRUE,
                !.completed_by = Append(@, "set_success")]

\* GraphSearchJob.set_failed, lines 82-83
set_failed_first(job) ==
    [job EXCEPT !.search_started = TRUE,
                !.search_success = "False"]

\* set_failed that drops the reason
set_failed_no_reason(job, reason) ==
    [job EXCEPT !.job_complete = TRUE,
                !.completed_by = Append(@, "set_failed")]

\* set_failed that forgets to mark the job complete
set_failed_incomplete(job, reason) == [job EXCEPT !.exit_msg = reason]

\* GraphSearchJob.set_failed, lines 84-85
set_failed_rest(job, reason) ==
    [job EXCEPT !.job_complete = TRUE,
                !.exit_msg = reason,
                !.completed_by = Append(@, "set_failed")]

\* ------------------------------------------------------ the transactions
\* base64.b64decode(txn).hex() at line 220, for the entries that decode
B64Decode(txn) == IF txn = "txA" THEN "rawA" ELSE "rawB"
\* raw transactions as hex text; a Transaction built without raw text has
\* raw None
Raws == {"rawA", "rawB"}
NoRaw == "None"
\* Transaction._txid(raw): the hash of the raw bytes
_txid(raw) == IF raw = "rawA" THEN "idA" ELSE "idB"
\* the txids the cache is asked for: "idC" is the hash of no transaction of
\* the model
TxKeys == {"idA", "idB", "idC"}
\* Transaction(raw): a new object, not deserialized; obj is its identity
Transaction(raw, obj) == [raw |-> raw, obj |-> obj]
\* None, where a transaction is expected
NoTx == [raw |-> "None", obj |-> 0]

\* ------------------------------------------------------- ExpiringCache
\* a cache that keeps its entries twice as long
timeout_doubled == 2 * 1800

\* ExpiringCache(maxlen=10000000, timeout=1800) at line 60; maxlen is far
\* beyond what a response holds and is left out
timeout == 1800
\* an entry is dropped once more than timeout seconds have passed since it
\* was put or last read
Expired(entry) == clock - entry.stamp > timeout
\* ExpiringCache.put
CachePut(cache, key, value) ==
    [k \in DOMAIN cache \cup {key} |->
        IF k = key THEN [value |-> value, stamp |-> clock] ELSE cache[k]]
\* ExpiringCache.get: the value and the cache after the read
CacheGet(cache, key) ==
    IF key \in DOMAIN cache /\ ~Expired(cache[key])
    THEN [value |-> cache[key].value,
          cache |-> [cache EXCEPT ![key].stamp = clock]]
    ELSE [value |-> NoTx,
          cache |-> [k \in DOMAIN cache \ {key} |-> cache[k]]]

\* put_tx that stores nothing
put_tx_nothing(job, tx, txid) == job

\* GraphSearchJob.put_tx: txid = txid or Transaction._txid(tx.raw)
put_tx(job, tx, txid) ==
    LET key == IF txid # "None" THEN txid ELSE _txid(tx.raw)
    IN [job EXCEPT !.txdata = CachePut(@, key, tx)]

\* get_tx that hands out the cached instance
get_tx_shared(job, txid) ==
    LET r == CacheGet(job.txdata, txid)
    IN [tx |-> IF r.value # NoTx /\ r.value.raw # NoRaw THEN r.value ELSE NoTx,
        job |-> [job EXCEPT !.txdata = r.cache]]

\* GraphSearchJob.get_tx: what it returns and the job after the call
get_tx(job, txid) ==
    LET r == CacheGet(job.txdata, txid)
    IN [tx |-> IF r.value # NoTx /\ r.value.raw # NoRaw
               THEN Transaction(r.value.raw, nobj + 1) ELSE NoTx,
        job |-> [job EXCEPT !.txdata = r.cache]]

\* ----------------------------------------------------------------- locals
NoLoc == [job |-> NoJob, txid |-> "None", cb |-> "None", reason |-> "None",
          incb |-> FALSE]
\* dat before the stream has ended
NoBody == [enc |-> "None", valid |-> FALSE, has_txdata |-> FALSE, is_list |-> FALSE,
           txdata |-> <<>>, has_error |-> FALSE, error |-> ""]
\* len: the length of the chunk being counted; reason and then: the
\* argument of the set_failed call in progress and where the worker goes on
\* after it
NoW == [chunks |-> 0, len |-> 0, dat |-> NoBody, txns |-> <<>>, exc |-> "None",
        reason |-> "None", then |-> "None"]

InitWith(n) ==
    /\ jobs = <<>>
    /\ search_jobs = [t \in Txids |-> NoJob]
    /\ search_queue = <<>>
    /\ lock = "free"
    /\ data_totalizer = 0
    /\ emit_ui_update = FALSE
    /\ valjob = [t \in Txids |-> [running |-> FALSE, has_never_run |-> TRUE]]
    /\ pc = [t \in Threads |-> IF t = Worker THEN "w_get" ELSE "idle"]
    /\ loc = [t \in Threads |-> NoLoc]
    /\ w = NoW
    /\ calls_left = n
    /\ queue_log = <<>>
    /\ deq_log = <<>>
    /\ wakeup_log = <<>>
    /\ handles = {}
    /\ ret = NoJob
    /\ clock = 0
    /\ nobj = 0
    /\ tx_log = <<>>

Init == InitWith(MaxCalls)
\* the same system with one call more
InitWide == InitWith(MaxCalls + 1)


\* ------------------------------------------------------------ the lock
\* a lock that excludes nobody
LockFreeAlways(l) == TRUE

\* threading.Lock: `with self.lock` blocks until no thread holds it
LockFree(l) == l = "free"

\* the thread returns from the operation it was called for: a caller thread
\* is idle again, the worker is back in mainloop after search_query returned
Return(t) ==
    /\ pc' = [pc EXCEPT ![t] = IF t = Worker THEN "w_finally" ELSE "idle"]
    /\ loc' = [loc EXCEPT ![t] = IF t = Worker THEN [NoLoc EXCEPT !.job = loc[t].job]
                                 ELSE NoLoc]

\* ------------------------------------------------- the caller threads
\* Caller threads run the same code and idle callers hold no state, so of
\* two idle callers it is the first that makes the next call; likewise the
\* root txids are interchangeable until one of them has been used.
MayCall(c) == pc[c] = "idle" /\ calls_left > 0 /\ (c = "c1" \/ pc["c1"] # "idle")
MayUse(v) == v = "aa" \/ emit_ui_update

\* ---------------------------------------- SlpGraphSearchManager.new_search
\* lines 131-134: a caller thread calls new_search(valjob_ref); the network
\* of every validation job carries slp_validation_fetch_signal
NewSearchCall(c, v) ==
    /\ MayCall(c)
    /\ MayUse(v)
    /\ calls_left' = calls_left - 1
    /\ emit_ui_update' = TRUE
    /\ loc' = [loc EXCEPT ![c] = [NoLoc EXCEPT !.txid = v]]
    /\ pc' = [pc EXCEPT ![c] = "ns_lock"]
    /\ UNCHANGED <<clock, nobj, tx_log>>
    /\ UNCHANGED <<jobs, search_jobs, search_queue, lock, data_totalizer, valjob,
                   w, queue_log, deq_log, wakeup_log, handles, ret>>

\* line 136: with self.lock
NewSearchLock(t) ==
    /\ pc[t] = "ns_lock"
    /\ LockFree(lock)
    /\ lock' = t
    /\ pc' = [pc EXCEPT ![t] = "ns_check"]
    /\ UNCHANGED <<clock, nobj, tx_log>>
    /\ UNCHANGED <<jobs, search_jobs, search_queue, data_totalizer, emit_ui_update,
                   valjob, loc, w, calls_left, queue_log, deq_log, wakeup_log, handles,
                   ret>>

\* a test that takes the entry of a complete job for no entry
IsNewOrComplete(registry, txid) ==
    registry[txid] = NoJob \/ jobs[registry[txid]].job_complete

\* line 137: if txid not in self.search_jobs.keys()
IsNewTxid(registry, txid) == registry[txid] = NoJob

NewSearchCheck(t) ==
    /\ pc[t] = "ns_check"
    /\ pc' = [pc EXCEPT ![t] = IF IsNewTxid(search_jobs, loc[t].txid)
                               THEN "ns_new" ELSE "ns_old"]
    /\ UNCHANGED <<clock, nobj, tx_log>>
    /\ UNCHANGED <<jobs, search_jobs, search_queue, lock, data_totalizer,
                   emit_ui_update, valjob, loc, w, calls_left, queue_log, deq_log,
                   wakeup_log, handles, ret>>

\* line 143: return job, leaving the with block; a caller thread keeps the
\* job it is given, the restart callback (lines 150-151) drops it and
\* returns too
NewSearchReturn(t, job) ==
    /\ lock' = "free"
    /\ handles' = IF loc[t].incb THEN handles ELSE handles \cup {job}
    /\ ret' = job
    /\ Return(t)

\* lines 138-140 and 143: construct the job, register it, put it on the
\* queue, return it
NewSearchNew(t) ==
    /\ pc[t] = "ns_new"
    /\ LET txid == loc[t].txid
           id == Len(jobs) + 1
       IN /\ jobs' = Append(jobs, GraphSearchJob(txid, txid))
          /\ search_jobs' = [search_jobs EXCEPT ![txid] = id]
          /\ search_queue' = Append(search_queue, id)
          /\ queue_log' = Append(queue_log, id)
          /\ NewSearchReturn(t, id)
    /\ UNCHANGED <<clock, nobj, tx_log>>
    /\ UNCHANGED <<data_totalizer, emit_ui_update, valjob, w, calls_left, deq_log,
                   wakeup_log>>

\* lines 142-143: job = self.search_jobs[txid]; return job
NewSearchOld(t) ==
    /\ pc[t] = "ns_old"
    /\ NewSearchReturn(t, search_jobs[loc[t].txid])
    /\ UNCHANGED <<clock, nobj, tx_log>>
    /\ UNCHANGED <<jobs, search_jobs, search_queue, data_totalizer, emit_ui_update,
                   valjob, w, calls_left, queue_log, deq_log, wakeup_log>>

\* ------------------------------------ SlpGraphSearchManager.restart_search
\* restart_search without the test of job_complete: the callback at once
RestartSearchEager(c, j) ==
    /\ MayCall(c)
    /\ j \in handles
    /\ calls_left' = calls_left - 1
    /\ loc' = [loc EXCEPT ![c] = [NoLoc EXCEPT !.job = j, !.incb = TRUE]]
    /\ pc' = [pc EXCEPT ![c] = "cb_lock"]
    /\ UNCHANGED <<clock, nobj, tx_log>>
    /\ UNCHANGED <<jobs, search_jobs, search_queue, lock, data_totalizer,
                   emit_ui_update, valjob, w, queue_log, deq_log, wakeup_log,
                   handles, ret>>

\* line 152: if not job.job_complete: job.sched_cancel(callback, reason=
\* 'job restarted') else: callback(job)
RestartSearchCall(c, j) ==
    /\ MayCall(c)
    /\ j \in handles
    /\ calls_left' = calls_left - 1
    /\ IF ~jobs[j].job_complete
       THEN /\ loc' = [loc EXCEPT ![c] = [NoLoc EXCEPT !.job = j,
                                                       !.cb = RestartCallback,
                                                       !.reason = "job restarted"]]
            /\ pc' = [pc EXCEPT ![c] = "sc_exit_msg"]
       ELSE /\ loc' = [loc EXCEPT ![c] = [NoLoc EXCEPT !.job = j, !.incb = TRUE]]
            /\ pc' = [pc EXCEPT ![c] = "cb_lock"]
    /\ UNCHANGED <<clock, nobj, tx_log>>
    /\ UNCHANGED <<jobs, search_jobs, search_queue, lock, data_totalizer,
                   emit_ui_update, valjob, w, queue_log, deq_log, wakeup_log,
                   handles, ret>>

\* a callback that pops without taking the lock
CallbackLockSkipped(t) ==
    /\ pc[t] = "cb_lock"
    /\ pc' = [pc EXCEPT ![t] = "cb_pop"]
    /\ UNCHANGED <<clock, nobj, tx_log>>
    /\ UNCHANGED <<jobs, search_jobs, search_queue, lock, data_totalizer,
                   emit_ui_update, valjob, loc, w, calls_left, queue_log, deq_log,
                   wakeup_log, handles, ret>>

\* line 148: with self.lock (in the callback of restart_search)
CallbackLock(t) ==
    /\ pc[t] = "cb_lock"
    /\ LockFree(lock)
    /\ lock' = t
    /\ pc' = [pc EXCEPT ![t] = "cb_pop"]
    /\ UNCHANGED <<clock, nobj, tx_log>>
    /\ UNCHANGED <<jobs, search_jobs, search_queue, data_totalizer, emit_ui_update,
                   valjob, loc, w, calls_left, queue_log, deq_log, wakeup_log, handles,
                   ret>>

\* a callback that forgets the removal
PopNothing(registry, job) == registry

\* line 149: self.search_jobs.pop(job.root_txid, None)
Pop(registry, job) == [registry EXCEPT ![job.root_txid] = NoJob]

\* a callback that calls new_search inside its with block
CallbackPopKeepsLock(t) ==
    /\ pc[t] = "cb_pop"
    /\ LET job == jobs[loc[t].job]
       IN /\ search_jobs' = Pop(search_jobs, job)
          /\ loc' = [loc EXCEPT ![t].txid = job.valjob]
    /\ pc' = [pc EXCEPT ![t] = "ns_lock"]
    /\ UNCHANGED <<clock, nobj, tx_log>>
    /\ UNCHANGED <<jobs, search_queue, lock, data_totalizer, emit_ui_update, valjob, w,
                   calls_left, queue_log, deq_log, wakeup_log, handles, ret>>

\* lines 149-150: pop, leave the with block, call new_search(job.valjob)
CallbackPop(t) ==
    /\ pc[t] = "cb_pop"
    /\ LET job == jobs[loc[t].job]
       IN /\ search_jobs' = Pop(search_jobs, job)
          /\ loc' = [loc EXCEPT ![t].txid = job.valjob]
    /\ lock' = "free"
    /\ pc' = [pc EXCEPT ![t] = "ns_lock"]
    /\ UNCHANGED <<clock, nobj, tx_log>>
    /\ UNCHANGED <<jobs, search_queue, data_totalizer, emit_ui_update, valjob, w,
                   calls_left, queue_log, deq_log, wakeup_log, handles, ret>>

\* ------------------------------------------- GraphSearchJob.sched_cancel
\* a caller thread calls job.sched_cancel(callback) with the default reason
SchedCancelCall(c, j, cb) ==
    /\ MayCall(c)
    /\ j \in handles
    /\ calls_left' = calls_left - 1
    /\ loc' = [loc EXCEPT ![c] = [NoLoc EXCEPT !.job = j, !.cb = cb,
                                               !.reason = "job canceled"]]
    /\ pc' = [pc EXCEPT ![c] = "sc_exit_msg"]
    /\ UNCHANGED <<clock, nobj, tx_log>>
    /\ UNCHANGED <<jobs, search_jobs, search_queue, lock, data_totalizer,
                   emit_ui_update, valjob, w, queue_log, deq_log, wakeup_log,
                   handles, ret>>

\* line 63: self.exit_msg = reason
SetExitMsg(job, reason) == [job EXCEPT !.exit_msg = reason]

SchedCancelExitMsg(t) ==
    /\ pc[t] = "sc_exit_msg"
    /\ jobs' = [jobs EXCEPT ![loc[t].job] = SetExitMsg(@, loc[t].reason)]
    /\ pc' = [pc EXCEPT ![t] = "sc_complete"]
    /\ UNCHANGED <<clock, nobj, tx_log>>
    /\ UNCHANGED <<search_jobs, search_queue, lock, data_totalizer, emit_ui_update,
                   valjob, loc, w, calls_left, queue_log, deq_log, wakeup_log, handles,
                   ret>>

\* lines 64-65: if self.job_complete: return
SchedCancelComplete(t) ==
    /\ pc[t] = "sc_complete"
    /\ IF jobs[loc[t].job].job_complete
       THEN Return(t)
       ELSE /\ pc' = [pc EXCEPT ![t] = "sc_waiting"]
            /\ loc' = loc
    /\ UNCHANGED <<clock, nobj, tx_log>>
    /\ UNCHANGED <<jobs, search_jobs, search_queue, lock, data_totalizer,
                   emit_ui_update, valjob, w, calls_left, queue_log, deq_log,
                   wakeup_log, handles, ret>>

\* line 66: if not self.waiting_to_cancel
SchedCancelWaiting(t) ==
    /\ pc[t] = "sc_waiting"
    /\ IF ~jobs[loc[t].job].waiting_to_cancel
       THEN /\ pc' = [pc EXCEPT ![t] = "sc_set_waiting"]
            /\ loc' = loc
       ELSE Return(t)
    /\ UNCHANGED <<clock, nobj, tx_log>>
    /\ UNCHANGED <<jobs, search_jobs, search_queue, lock, data_totalizer,
                   emit_ui_update, valjob, w, calls_left, queue_log, deq_log,
                   wakeup_log, handles, ret>>

\* a sched_cancel that cancels the job on the spot
SetWaitingCancelsNow(job) ==
    [job EXCEPT !.waiting_to_cancel = TRUE,
                !.job_complete = TRUE,
                !.search_success = "False",
                !.completed_by = Append(@, "_cancel")]

\* line 67: self.waiting_to_cancel = True
SetWaiting(job) == [job EXCEPT !.waiting_to_cancel = TRUE]

SchedCancelSetWaiting(t) ==
    /\ pc[t] = "sc_set_waiting"
    /\ jobs' = [jobs EXCEPT ![loc[t].job] = SetWaiting(@)]
    /\ pc' = [pc EXCEPT ![t] = "sc_set_callback"]
    /\ UNCHANGED <<clock, nobj, tx_log>>
    /\ UNCHANGED <<search_jobs, search_queue, lock, data_totalizer, emit_ui_update,
                   valjob, loc, w, calls_left, queue_log, deq_log, wakeup_log, handles,
                   ret>>

\* line 68: self.cancel_callback = callback
SetCallback(job, callback) == [job EXCEPT !.cancel_callback = callback]

\* lines 68-69
SchedCancelSetCallback(t) ==
    /\ pc[t] = "sc_set_callback"
    /\ jobs' = [jobs EXCEPT ![loc[t].job] = SetCallback(@, loc[t].cb)]
    /\ Return(t)
    /\ UNCHANGED <<clock, nobj, tx_log>>
    /\ UNCHANGED <<search_jobs, search_queue, lock, data_totalizer, emit_ui_update,
                   valjob, w, calls_left, queue_log, deq_log, wakeup_log, handles, ret>>

\* ------------------------------------------------ the validation jobs
\* the owner of a validation job starts it (running, has run) and stops it,
\* at any time.  Only the worker reads these flags, those of the job it
\* holds, at lines 162, 185 and 204: a change made at any other time is
\* the same change made right before the worker's next read, and that is
\* where the model places it.
Observed(v) ==
    /\ pc[Worker] \in {"w_running", "sq_running", "sq_chunk_check"}
    /\ jobs[loc[Worker].job].valjob = v

ValjobRun(v) ==
    /\ Observed(v)
    /\ ~valjob[v].running
    /\ valjob' = [valjob EXCEPT ![v] = [running |-> TRUE, has_never_run |-> FALSE]]
    /\ UNCHANGED <<clock, nobj, tx_log>>
    /\ UNCHANGED <<jobs, search_jobs, search_queue, lock, data_totalizer,
                   emit_ui_update, pc, loc, w, calls_left, queue_log, deq_log,
                   wakeup_log, handles, ret>>

ValjobStop(v) ==
    /\ Observed(v)
    /\ valjob[v].running
    /\ valjob' = [valjob EXCEPT ![v].running = FALSE]
    /\ UNCHANGED <<clock, nobj, tx_log>>
    /\ UNCHANGED <<jobs, search_jobs, search_queue, lock, data_totalizer,
                   emit_ui_update, pc, loc, w, calls_left, queue_log, deq_log,
                   wakeup_log, handles, ret>>

\* ------------------------------------------------ response bodies
\* a body is its encoding and the JSON document it holds: whether it parses,
\* its txdata member when it has one (whether it is a list, and what
\* iterating it yields), its error string when it has one
\* the txdata lists; the entries that decode are interchangeable, so a list
\* names "txB" only after it has named "txA"; the loop of line 218 ends at
\* the first entry that does not decode, so that entry is the last
TxLists ==
    {l \in UNION {[1..n -> Payloads] : n \in 0..MaxTxns} :
        \A i \in 1..Len(l) :
            /\ l[i] = "txB" => \E k \in 1..(i - 1) : l[k] = "txA"
            /\ l[i] = "bad" => i = Len(l)}
Body(enc, valid, has_txdata, txdata, has_error, error) ==
    [enc |-> enc, valid |-> valid, has_txdata |-> has_txdata, is_list |-> has_txdata,
     txdata |-> txdata, has_error |-> has_error, error |-> error]
\* {"txdata": {}}: line 212 takes any member, and the loop of line 218 over
\* an empty object (or an empty string) has nothing to iterate
EmptyObjectBody == [Body("utf8", TRUE, TRUE, <<>>, FALSE, "") EXCEPT !.is_list = FALSE]
\* what b'' and any other non-JSON payload are
GarbageBody == Body("utf8", FALSE, FALSE, <<>>, FALSE, "")
Bodies ==
    {Body("utf8", TRUE, TRUE, l, FALSE, "") : l \in TxLists}
    \cup {Body(enc, TRUE, FALSE, <<>>, TRUE, e) :
              enc \in {"utf8", "utf16"}, e \in {"not found", ""}}
    \cup {Body("utf16", TRUE, TRUE, <<>>, FALSE, ""),
          Body("utf8", TRUE, FALSE, <<>>, FALSE, ""),
          EmptyObjectBody,
          GarbageBody}

\* lines 210-217.  Line 211 rebinds dat to the parsed document before line
\* 212 looks up 'txdata', so in the except block json.loads(dat) is given
\* the dict (TypeError) when line 211 succeeded, and the bytes when line 211
\* raised; json.loads of bytes detects UTF-16/32, dat.decode('utf-8') and
\* json.loads of the decoded text do not
ParseBody(body) ==
    LET first_ok == body.enc = "utf8" /\ body.valid
    IN IF first_ok /\ body.has_txdata
       THEN [ok |-> TRUE, txns |-> body.txdata, exc |-> "None"]
       ELSE [ok |-> FALSE, txns |-> <<>>,
             exc |-> IF first_ok THEN TypeErrorMsg
                     ELSE IF ~body.valid THEN JSONDecodeErrorMsg
                     ELSE IF ~body.has_error THEN KeyErrorMsg
                     ELSE IF body.error # "" THEN body.error
                     ELSE EmptyErrorDictMsg]

\* ------------------------------------------ SlpGraphSearchManager.mainloop
\* a queue that hands out the newest entry
QueueGetLast(q) == [job |-> q[Len(q)], rest |-> SubSeq(q, 1, Len(q) - 1)]

\* queue.Queue.get
QueueGet(q) == [job |-> Head(q), rest |-> Tail(q)]

\* a mainloop without its line 161
MarkStartedSkipped(job) == job

\* line 161: job.search_started = True
MarkStarted(job) == [job EXCEPT !.search_started = TRUE]

\* lines 160-161: job = self.search_queue.get(block=True);
\* job.search_started = True
MainloopGet ==
    /\ pc[Worker] = "w_get"
    /\ search_queue # <<>>
    /\ LET g == QueueGet(search_queue)
       IN /\ search_queue' = g.rest
          /\ loc' = [loc EXCEPT ![Worker] = [NoLoc EXCEPT !.job = g.job]]
          /\ deq_log' = Append(deq_log, g.job)
          /\ jobs' = [jobs EXCEPT ![g.job] = MarkStarted(@)]
    /\ pc' = [pc EXCEPT ![Worker] = "w_running"]
    /\ UNCHANGED <<clock, nobj, tx_log>>
    /\ UNCHANGED <<search_jobs, lock, data_totalizer, emit_ui_update, valjob, w,
                   calls_left, queue_log, wakeup_log, handles, ret>>

\* the test read as: not running and never ran
ValjobNeverRan(v) == ~v.running /\ v.has_never_run

\* lines 162 and 185: not job.valjob.running and not job.valjob.has_never_run
ValjobFinished(v) == ~v.running /\ ~v.has_never_run

\* the worker calls job.set_failed(reason) and goes on at `then` after it;
\* every such call is made when search_query is over, and its locals with it
CallSetFailed(reason, then) ==
    /\ jobs' = [jobs EXCEPT ![loc[Worker].job] = set_failed_first(@)]
    /\ w' = [NoW EXCEPT !.reason = reason, !.then = then]
    /\ pc' = [pc EXCEPT ![Worker] = "set_failed_rest"]

\* lines 162-164: fail the job and continue with the next, or call
\* search_query
MainloopRunning ==
    /\ pc[Worker] = "w_running"
    /\ IF ValjobFinished(valjob[jobs[loc[Worker].job].valjob])
       THEN CallSetFailed("validation finished", "w_get")
       ELSE /\ pc' = [pc EXCEPT ![Worker] = "sq_cancel"]
            /\ UNCHANGED <<jobs, w>>
    /\ UNCHANGED <<clock, nobj, tx_log>>
    /\ UNCHANGED <<search_jobs, search_queue, lock, data_totalizer, emit_ui_update,
                   valjob, loc, calls_left, queue_log, deq_log, wakeup_log, handles, ret>>

\* lines 84-85, and the return to where set_failed was called from: the
\* next iteration of mainloop (line 164), or the finally block
SetFailedRest ==
    /\ pc[Worker] = "set_failed_rest"
    /\ jobs' = [jobs EXCEPT ![loc[Worker].job] = set_failed_rest(@, w.reason)]
    /\ pc' = [pc EXCEPT ![Worker] = w.then]
    /\ IF w.then = "w_get"
       THEN /\ loc' = [loc EXCEPT ![Worker] = NoLoc]
            /\ w' = NoW
       ELSE UNCHANGED <<loc, w>>
    /\ UNCHANGED <<clock, nobj, tx_log>>
    /\ UNCHANGED <<search_jobs, search_queue, lock, data_totalizer, emit_ui_update,
                   valjob, calls_left, queue_log, deq_log, wakeup_log, handles, ret>>

\* line 72 of job._cancel(), called at line 183 or 208
CancelNow ==
    /\ jobs' = [jobs EXCEPT ![loc[Worker].job] = _cancel_first(@)]
    /\ pc' = [pc EXCEPT ![Worker] = "_cancel_rest"]

\* a _cancel that search_query does not return after
AfterCancelNoReturn(job) == "sq_running"

\* where the worker goes on after line 73: in the restart callback when
\* that is the one stored (lines 74-75), else, as after any other callback,
\* at the return of line 184 or 209
AfterCancel(job) ==
    IF job.cancel_callback = RestartCallback THEN "cb_lock" ELSE "w_finally"

\* lines 73-75 of job._cancel()
CancelRest ==
    /\ pc[Worker] = "_cancel_rest"
    /\ LET j == loc[Worker].job
       IN /\ jobs' = [jobs EXCEPT ![j] = _cancel_rest(@)]
          /\ pc' = [pc EXCEPT ![Worker] = AfterCancel(jobs[j])]
          /\ loc' = [loc EXCEPT ![Worker].incb = jobs[j].cancel_callback = RestartCallback]
    /\ UNCHANGED <<clock, nobj, tx_log>>
    /\ UNCHANGED <<search_jobs, search_queue, lock, data_totalizer, emit_ui_update,
                   valjob, w, calls_left, queue_log, deq_log, wakeup_log, handles, ret>>

\* lines 182-184: if job.waiting_to_cancel
SearchQueryCancel ==
    /\ pc[Worker] = "sq_cancel"
    /\ IF jobs[loc[Worker].job].waiting_to_cancel
       THEN CancelNow
       ELSE /\ pc' = [pc EXCEPT ![Worker] = "sq_running"]
            /\ UNCHANGED jobs
    /\ UNCHANGED <<clock, nobj, tx_log>>
    /\ UNCHANGED <<search_jobs, search_queue, lock, data_totalizer, emit_ui_update,
                   valjob, loc, w, calls_left, queue_log, deq_log, wakeup_log, handles,
                   ret>>

\* lines 185-195: fail the job, or post the request
\* (requests.post(..., stream=True, timeout=60))
SearchQueryRunning ==
    /\ pc[Worker] = "sq_running"
    /\ LET j == loc[Worker].job
       IN IF ValjobFinished(valjob[jobs[j].valjob])
          THEN CallSetFailed("validation finished", "w_finally")
          ELSE /\ jobs' = [jobs EXCEPT ![j].posted = TRUE]
               /\ pc' = [pc EXCEPT ![Worker] = "sq_iter"]
               /\ UNCHANGED w
    /\ UNCHANGED <<clock, nobj, tx_log>>
    /\ UNCHANGED <<search_jobs, search_queue, lock, data_totalizer, emit_ui_update,
                   valjob, loc, calls_left, queue_log, deq_log, wakeup_log, handles,
                   ret>>

\* lines 195-196: requests.post or r.iter_content raises (connection error,
\* timeout)
SearchQueryRequestError ==
    /\ pc[Worker] = "sq_iter"
    /\ jobs' = jobs
    /\ w' = [w EXCEPT !.exc = ConnectionErrorMsg]
    /\ pc' = [pc EXCEPT ![Worker] = "w_except"]
    /\ UNCHANGED <<clock, nobj, tx_log>>
    /\ UNCHANGED <<search_jobs, search_queue, lock, data_totalizer, emit_ui_update,
                   valjob, loc, calls_left, queue_log, deq_log, wakeup_log, handles,
                   ret>>

\* lines 196-197: one chunk of len bytes arrives;
\* job.gs_response_size += len(chunk)
SearchQueryChunk(len) ==
    /\ pc[Worker] = "sq_iter"
    /\ w.chunks < MaxChunks
    /\ jobs' = [jobs EXCEPT ![loc[Worker].job].gs_response_size = @ + len]
    /\ w' = [w EXCEPT !.chunks = @ + 1, !.len = len]
    /\ pc' = [pc EXCEPT ![Worker] = "sq_chunk_total"]
    /\ UNCHANGED <<clock, nobj, tx_log>>
    /\ UNCHANGED <<search_jobs, search_queue, lock, data_totalizer, emit_ui_update,
                   valjob, loc, calls_left, queue_log, deq_log, wakeup_log, handles,
                   ret>>

\* a total that counts every chunk twice
AddTwice(total, len) == total + 2 * len

\* line 198: self.data_totalizer += len(chunk)
AddBytes(total, len) == total + len

\* lines 198-203: the total, dat += chunk, the progress notification
SearchQueryChunkTotal ==
    /\ pc[Worker] = "sq_chunk_total"
    /\ data_totalizer' = AddBytes(data_totalizer, w.len)
    /\ w' = [w EXCEPT !.len = 0]
    /\ pc' = [pc EXCEPT ![Worker] = "sq_chunk_check"]
    /\ UNCHANGED <<clock, nobj, tx_log>>
    /\ UNCHANGED <<jobs, search_jobs, search_queue, lock, emit_ui_update, valjob,
                   loc, calls_left, queue_log, deq_log, wakeup_log, handles, ret>>

\* the test of lines 162 and 185 in the place of the one of line 204
ValjobStoppedAfterRun(v) == ~v.running /\ ~v.has_never_run

\* line 204: not job.valjob.running
ValjobStopped(v) == ~v.running

\* the two tests in the other order
ChunkCheckCancelFirst(stopped, waiting) ==
    IF waiting THEN "cancel" ELSE IF stopped THEN "fail" ELSE "iterate"

\* lines 204 and 207: if not job.valjob.running ... elif
\* job.waiting_to_cancel ..., else the next iteration of the loop
ChunkCheck(stopped, waiting) ==
    IF stopped THEN "fail" ELSE IF waiting THEN "cancel" ELSE "iterate"

\* lines 204-209: the checks after each chunk
SearchQueryChunkCheck ==
    /\ pc[Worker] = "sq_chunk_check"
    /\ LET j == loc[Worker].job
           do == ChunkCheck(ValjobStopped(valjob[jobs[j].valjob]),
                            jobs[j].waiting_to_cancel)
       IN IF do = "fail"
          THEN CallSetFailed("validation job stopped", "w_finally")
          ELSE IF do = "cancel"
          THEN CancelNow /\ w' = NoW
          ELSE /\ pc' = [pc EXCEPT ![Worker] = "sq_iter"]
               /\ UNCHANGED <<jobs, w>>
    /\ UNCHANGED <<clock, nobj, tx_log>>
    /\ UNCHANGED <<search_jobs, search_queue, lock, data_totalizer, emit_ui_update,
                   valjob, loc, calls_left, queue_log, deq_log, wakeup_log, handles, ret>>

\* lines 210-217: the stream has ended with this body (nothing but the empty
\* payload when no chunk arrived)
SearchQueryParse(body) ==
    /\ pc[Worker] = "sq_iter"
    /\ w.chunks = 0 => body = GarbageBody
    /\ LET r == ParseBody(body)
       IN /\ w' = [w EXCEPT !.dat = body, !.txns = r.txns, !.exc = r.exc]
          /\ pc' = [pc EXCEPT ![Worker] = IF r.ok THEN "sq_txn" ELSE "w_except"]
    /\ UNCHANGED <<clock, nobj, tx_log>>
    /\ UNCHANGED <<jobs, search_jobs, search_queue, lock, data_totalizer,
                   emit_ui_update, valjob, loc, calls_left, queue_log, deq_log,
                   wakeup_log, handles, ret>>

\* base64.b64decode raises on a payload that is not base64
Decodes(txn) == txn # "bad"

\* lines 218-221: one iteration of the loop over txns
SearchQueryTxn ==
    /\ pc[Worker] = "sq_txn"
    /\ w.txns # <<>>
    /\ LET j == loc[Worker].job
           txn == Head(w.txns)
       IN IF Decodes(txn)
          THEN /\ jobs' = [jobs EXCEPT ![j] =
                              put_tx([@ EXCEPT !.txn_count_progress = @ + 1],
                                     Transaction(B64Decode(txn), nobj + 1), "None")]
               /\ nobj' = nobj + 1
               /\ w' = [w EXCEPT !.txns = Tail(@)]
               /\ pc' = pc
          ELSE /\ jobs' = [jobs EXCEPT ![j].txn_count_progress = @ + 1]
               /\ w' = [w EXCEPT !.exc = B64ErrorMsg]
               /\ pc' = [pc EXCEPT ![Worker] = "w_except"]
               /\ nobj' = nobj
    /\ UNCHANGED <<clock, tx_log>>
    /\ UNCHANGED <<search_jobs, search_queue, lock, data_totalizer, emit_ui_update,
                   valjob, loc, calls_left, queue_log, deq_log, wakeup_log, handles,
                   ret>>

\* line 223: job.set_success(), its line 78
SearchQuerySuccess ==
    /\ pc[Worker] = "sq_txn"
    /\ w.txns = <<>>
    /\ jobs' = [jobs EXCEPT ![loc[Worker].job] = set_success_first(@)]
    /\ pc' = [pc EXCEPT ![Worker] = "set_success_rest"]
    /\ UNCHANGED <<clock, nobj, tx_log>>
    /\ UNCHANGED <<search_jobs, search_queue, lock, data_totalizer, emit_ui_update,
                   valjob, loc, w, calls_left, queue_log, deq_log, wakeup_log, handles,
                   ret>>

\* lines 168-170: except Exception as e: job.set_failed(str(e))
MainloopExcept ==
    /\ pc[Worker] = "w_except"
    /\ CallSetFailed(w.exc, "w_finally")
    /\ UNCHANGED <<clock, nobj, tx_log>>
    /\ UNCHANGED <<search_jobs, search_queue, lock, data_totalizer, emit_ui_update,
                   valjob, loc, calls_left, queue_log, deq_log, wakeup_log, handles,
                   ret>>

\* line 79 of job.set_success(), and the end of search_query
SetSuccessRest ==
    /\ pc[Worker] = "set_success_rest"
    /\ jobs' = [jobs EXCEPT ![loc[Worker].job] = set_success_rest(@)]
    /\ pc' = [pc EXCEPT ![Worker] = "w_finally"]
    /\ UNCHANGED <<clock, nobj, tx_log>>
    /\ UNCHANGED <<search_jobs, search_queue, lock, data_totalizer, emit_ui_update,
                   valjob, loc, w, calls_left, queue_log, deq_log, wakeup_log, handles,
                   ret>>

\* a finally block that also drops the finished job from the registry
MainloopFinallyEvicts ==
    /\ pc[Worker] = "w_finally"
    /\ wakeup_log' = Append(wakeup_log, loc[Worker].job)
    /\ emit_ui_update' = TRUE
    /\ search_jobs' = Pop(search_jobs, jobs[loc[Worker].job])
    /\ pc' = [pc EXCEPT ![Worker] = "w_get"]
    /\ loc' = [loc EXCEPT ![Worker] = NoLoc]
    /\ w' = NoW
    /\ UNCHANGED <<clock, nobj, tx_log>>
    /\ UNCHANGED <<jobs, search_queue, lock, data_totalizer, valjob,
                   calls_left, queue_log, deq_log, handles, ret>>

\* lines 171-177: finally: job.valjob.wakeup.set(), emit_ui_update; then the
\* next iteration of while True
MainloopFinally ==
    /\ pc[Worker] = "w_finally"
    /\ wakeup_log' = Append(wakeup_log, loc[Worker].job)
    /\ emit_ui_update' = TRUE
    /\ pc' = [pc EXCEPT ![Worker] = "w_get"]
    /\ loc' = [loc EXCEPT ![Worker] = NoLoc]
    /\ w' = NoW
    /\ UNCHANGED <<clock, nobj, tx_log>>
    /\ UNCHANGED <<jobs, search_jobs, search_queue, lock, data_totalizer, valjob,
                   calls_left, queue_log, deq_log, handles, ret>>

\* ------------------------------------------------------------ the system
ChunkLens == {1}

Next ==
    \/ \E c \in Callers, v \in Txids : NewSearchCall(c, v)
    \/ \E c \in Callers, j \in JobIds : RestartSearchCall(c, j)
    \/ \E c \in Callers, j \in JobIds, cb \in CallerCallbacks : SchedCancelCall(c, j, cb)
    \/ \E t \in Threads : NewSearchLock(t)
    \/ \E t \in Threads : NewSearchCheck(t)
    \/ \E t \in Threads : NewSearchNew(t)
    \/ \E t \in Threads : NewSearchOld(t)
    \/ \E t \in Threads : CallbackLock(t)
    \/ \E t \in Threads : CallbackPop(t)
    \/ \E c \in Callers : SchedCancelExitMsg(c)
    \/ \E c \in Callers : SchedCancelComplete(c)
    \/ \E c \in Callers : SchedCancelWaiting(c)
    \/ \E c \in Callers : SchedCancelSetWaiting(c)
    \/ \E c \in Callers : SchedCancelSetCallback(c)
    \/ \E v \in Txids : ValjobRun(v)
    \/ \E v \in Txids : ValjobStop(v)
    \/ MainloopGet
    \/ MainloopRunning
    \/ SetFailedRest
    \/ CancelRest
    \/ SetSuccessRest
    \/ SearchQueryCancel
    \/ SearchQueryRunning
    \/ SearchQueryRequestError
    \/ \E len \in ChunkLens : SearchQueryChunk(len)
    \/ SearchQueryChunkTotal
    \/ SearchQueryChunkCheck
    \/ \E body \in Bodies : SearchQueryParse(body)
    \/ SearchQueryTxn
    \/ SearchQuerySuccess
    \/ MainloopExcept
    \/ MainloopFinally

Spec == Init /\ [][Next]_vars
SpecWide == InitWide /\ [][Next]_vars

\* The worker is a thread of its own (line 118): it takes its next step
\* whenever it has one, and a step of it that waits for the network is
\* over after 60 seconds at most (line 195).  A caller thread inside
\* `with self.lock` does not stay there.
WorkerStep ==
    \/ MainloopGet
    \/ MainloopRunning
    \/ SetFailedRest
    \/ CancelRest
    \/ SetSuccessRest
    \/ SearchQueryCancel
    \/ SearchQueryRunning
    \/ SearchQueryRequestError
    \/ \E len \in ChunkLens : SearchQueryChunk(len)
    \/ SearchQueryChunkTotal
    \/ SearchQueryChunkCheck
    \/ \E body \in Bodies : SearchQueryParse(body)
    \/ SearchQueryTxn
    \/ SearchQuerySuccess
    \/ MainloopExcept
    \/ MainloopFinally
    \/ CallbackLock(Worker)
    \/ CallbackPop(Worker)
    \/ NewSearchLock(Worker)
    \/ NewSearchCheck(Worker)
    \/ NewSearchNew(Worker)
    \/ NewSearchOld(Worker)

LockedCallerStep ==
    \E c \in Callers :
        NewSearchCheck(c) \/ NewSearchNew(c) \/ NewSearchOld(c) \/ CallbackPop(c)

FairSpec == Spec /\ WF_vars(WorkerStep) /\ WF_vars(LockedCallerStep)

\* A caller thread inside sched_cancel or waiting for the lock goes on as
\* well: every call that was made returns.
CallerStepOf(c) ==
    \/ NewSearchLock(c) \/ NewSearchCheck(c) \/ NewSearchNew(c) \/ NewSearchOld(c)
    \/ CallbackLock(c) \/ CallbackPop(c)
    \/ SchedCancelExitMsg(c) \/ SchedCancelComplete(c) \/ SchedCancelWaiting(c)
    \/ SchedCancelSetWaiting(c) \/ SchedCancelSetCallback(c)

CallerStep == \E c \in Callers : CallerStepOf(c)

FairSpecAll == Spec /\ WF_vars(WorkerStep) /\ WF_vars(CallerStep)

\* ------------------------------------------- a job's transaction cache
\* The users of one job call put_tx and get_tx while time passes.  The job
\* is one new_search has returned; the manager is left alone.
\* number of put_tx and get_tx calls
MaxCacheOps == 3
\* the latest time of day, in seconds
MaxClock == 2702
\* the steps time takes between calls
TickSteps == {900, 901}

managerVars == <<search_jobs, search_queue, lock, data_totalizer, emit_ui_update,
                 valjob, pc, loc, w, calls_left, queue_log, deq_log, wakeup_log,
                 handles, ret>>

InitCache ==
    /\ jobs = <<GraphSearchJob("aa", "aa")>>
    /\ search_jobs = [t \in Txids |-> IF t = "aa" THEN 1 ELSE NoJob]
    /\ search_queue = <<1>>
    /\ lock = "free"
    /\ data_totalizer = 0
    /\ emit_ui_update = TRUE
    /\ valjob = [t \in Txids |-> [running |-> FALSE, has_never_run |-> TRUE]]
    /\ pc = [t \in Threads |-> IF t = Worker THEN "w_get" ELSE "idle"]
    /\ loc = [t \in Threads |-> NoLoc]
    /\ w = NoW
    /\ calls_left = 0
    /\ queue_log = <<1>>
    /\ deq_log = <<>>
    /\ wakeup_log = <<>>
    /\ handles = {1}
    /\ ret = 1
    /\ clock = 0
    /\ nobj = 0
    /\ tx_log = <<>>

\* job.put_tx(Transaction(raw), txid): line 102 raises (TypeError) when
\* neither a txid nor raw text is there to take the txid from
PutTxCall(raw, txid) ==
    /\ Len(tx_log) < MaxCacheOps
    /\ LET tx == Transaction(raw, nobj + 1)
           raises == txid = "None" /\ raw = NoRaw
           key == IF txid # "None" THEN txid ELSE IF raises THEN "None" ELSE _txid(raw)
       IN /\ jobs' = IF raises THEN jobs
                     ELSE [jobs EXCEPT ![1] = put_tx(@, tx, txid)]
          /\ tx_log' = Append(tx_log, [op |-> IF raises THEN "put_raised" ELSE "put",
                                       txid |-> key, tx |-> tx, at |-> clock])
    /\ nobj' = nobj + 1
    /\ UNCHANGED clock
    /\ UNCHANGED managerVars

\* job.get_tx(txid)
GetTxCall(txid) ==
    /\ Len(tx_log) < MaxCacheOps
    /\ LET r == get_tx(jobs[1], txid)
       IN /\ jobs' = [jobs EXCEPT ![1] = r.job]
          /\ tx_log' = Append(tx_log, [op |-> "get", txid |-> txid, tx |-> r.tx,
                                       at |-> clock])
          /\ nobj' = IF r.tx # NoTx THEN nobj + 1 ELSE nobj
    /\ UNCHANGED clock
    /\ UNCHANGED managerVars

\* time passes
Tick(d) ==
    /\ clock + d <= MaxClock
    /\ clock' = clock + d
    /\ UNCHANGED <<jobs, nobj, tx_log>>
    /\ UNCHANGED managerVars

NextCache ==
    \/ \E raw \in Raws \cup {NoRaw}, txid \in {"None", "idC"} : PutTxCall(raw, txid)
    \/ \E txid \in TxKeys : GetTxCall(txid)
    \/ \E d \in TickSteps : Tick(d)

SpecCache == InitCache /\ [][NextCache]_vars

\* ------------------------------------------------------------ properties
Range(q) == {q[i] : i \in 1..Len(q)}
Count(q, x) == Cardinality({i \in 1..Len(q) : q[i] = x})
\* the step is thread t returning from new_search(valjob of x)
NewSearchReturns(t, x) ==
    /\ pc[t] \in {"ns_new", "ns_old"}
    /\ pc'[t] \notin {"ns_new", "ns_old"}
    /\ loc[t].txid = x

C2_CompleteOnce ==
    [][\A j \in 1..Len(jobs) :
          /\ jobs[j].job_complete =>
                 /\ jobs'[j].job_complete
                 /\ jobs'[j].completed_by = jobs[j].completed_by
          /\ ~jobs[j].job_complete => jobs[j].completed_by = <<>>
          /\ (~jobs[j].job_complete /\ jobs'[j].job_complete) =>
                 /\ Len(jobs'[j].completed_by) = 1
                 /\ jobs'[j].completed_by[1] \in {"set_success", "set_failed", "_cancel"}
          /\ ~jobs'[j].job_complete => jobs'[j].completed_by = <<>>]_vars

\* one job was completed by _cancel, another by set_success
C2_Witness ==
    \E j, k \in JobIds :
        /\ jobs[j].completed_by = <<"_cancel">>
        /\ jobs[k].completed_by = <<"set_success">>

StatusFields(job) ==
    <<job.search_started, job.search_success, job.exit_msg, job.txn_count_progress,
      job.gs_response_size, job.waiting_to_cancel, job.cancel_callback>>

\* C3: once job_complete is true no step changes search_started,
\* search_success, exit_msg, txn_count_progress, gs_response_size,
\* waiting_to_cancel or cancel_callback of the job.
C3_TerminalFrame ==
    [][\A j \in 1..Len(jobs) :
          jobs[j].job_complete => StatusFields(jobs'[j]) = StatusFields(jobs[j])]_vars

\* C4: a job completed by _cancel for which a caller's sched_cancel stored a
\* callback has had exactly that callback invoked, once, when _cancel is
\* over.
C4_CallbackOnce ==
    \A j \in JobIds :
        (/\ jobs[j].completed_by = <<"_cancel">>
         /\ ~(pc[Worker] = "_cancel_rest" /\ loc[Worker].job = j)
         /\ jobs[j].cancel_callback # "None")
            => jobs[j].cb_calls = <<jobs[j].cancel_callback>>

\* the jobs waiting in search_queue and the job the worker holds
InFlight == Range(search_queue) \cup ({loc[Worker].job} \ {NoJob})

\* C5: for each root_txid at most one job among those waiting in
\* search_queue and the one the worker holds is not complete.
C5_OneInFlight ==
    \A x \in Txids :
        Cardinality({j \in InFlight : jobs[j].root_txid = x /\ ~jobs[j].job_complete}) <= 1

\* C6: the jobs the worker has taken, in the order it took them, are the
\* first jobs put on search_queue, in the order they were put.
C6_Fifo ==
    /\ Len(deq_log) <= Len(queue_log)
    /\ deq_log = SubSeq(queue_log, 1, Len(deq_log))

\* two jobs of different root txids were put on the queue and the worker
\* has taken both, the second after it was done with the first
C6_Witness ==
    /\ deq_log = <<1, 2>>
    /\ loc[Worker].job = 2
    /\ jobs[1].job_complete
    /\ jobs[1].root_txid # jobs[2].root_txid

\* the step is the end of a set_failed call of the worker
SetFailedRestStep == pc[Worker] = "set_failed_rest" /\ pc'[Worker] # "set_failed_rest"
\* the step is the worker's except clause taking the error search_query
\* raised
ExceptStep == pc[Worker] = "w_except" /\ pc'[Worker] # "w_except"

\* C7: the except clause calls set_failed with the text of the error that
\* search_query raised; the call leaves the job complete, not successful,
\* with that text as exit_msg, and takes the worker to the finally block;
\* from there the worker goes back to search_queue.get; the worker is never
\* outside its loop.
C7_ErrorsBecomeFailures ==
    [][/\ ExceptStep =>
              /\ w.exc # "None"
              /\ pc'[Worker] = "set_failed_rest"
              /\ w'.reason = w.exc
              /\ w'.then = "w_finally"
       /\ SetFailedRestStep =>
              LET job == jobs'[loc[Worker].job]
              IN /\ job.job_complete
                 /\ job.search_success = "False"
                 /\ job.exit_msg = w.reason
                 /\ pc'[Worker] = w.then
                 /\ w.then \in {"w_finally", "w_get"}
       /\ (pc[Worker] = "w_finally" /\ pc'[Worker] # "w_finally") =>
              pc'[Worker] = "w_get"
       /\ pc'[Worker] \in {"w_get", "w_running", "sq_cancel", "sq_running",
                           "sq_iter", "sq_chunk_total", "sq_chunk_check", "sq_txn",
                           "w_except",
                           "w_finally", "cb_lock", "cb_pop", "ns_lock", "ns_check",
                           "ns_new", "ns_old", "set_failed_rest",
                           "set_success_rest", "_cancel_rest"}]_vars

\* a job failed on an undecodable response and the worker has taken the
\* job that was put on the queue after it
C7_Witness ==
    \E j, k \in JobIds :
        /\ j < k
        /\ jobs[j].completed_by = <<"set_failed">>
        /\ jobs[j].exit_msg = JSONDecodeErrorMsg
        /\ loc[Worker].job = k
        /\ jobs[k].posted

\* the step is thread t popping the entry in the restart callback
CallbackPops(t) == pc[t] = "cb_pop" /\ pc'[t] # "cb_pop"

\* C8: the restart callback for a complete job removes the entry of the
\* job's root_txid; the new_search it then makes returns the job registered
\* for that txid, a job of the same validation job that is on the queue
\* history and is not the old one; and only newly constructed jobs are ever
\* registered, so the old one is never returned again.
C8_RestartComplete ==
    [][/\ \A t \in Threads :
            LET old == loc[t].job
            IN /\ CallbackPops(t) =>
                      /\ jobs[old].job_complete
                      /\ search_jobs'[jobs[old].root_txid] = NoJob
               /\ (loc[t].incb /\ NewSearchReturns(t, loc[t].txid)) =>
                      /\ loc[t].txid = jobs[old].root_txid
                      /\ ret' # NoJob
                      /\ ret' # old
                      /\ ret' = search_jobs'[jobs[old].root_txid]
                      /\ jobs'[ret'].valjob = jobs[old].valjob
                      /\ ret' \in Range(queue_log')
       /\ \A x \in Txids :
            (search_jobs'[x] # search_jobs[x] /\ search_jobs'[x] # NoJob) =>
                /\ Len(jobs') = Len(jobs) + 1
                /\ search_jobs'[x] = Len(jobs')]_vars

\* restart_search was called on a job that had succeeded and a newer job is
\* registered for its root_txid
C8_Witness ==
    \E j \in JobIds :
        /\ jobs[j].completed_by = <<"set_success">>
        /\ search_jobs[jobs[j].root_txid] > j
        /\ pc["c1"] = "idle" /\ pc["c2"] = "idle"

\* the step is one of thread c inside restart_search(job) for a job that
\* was not complete when line 152 tested it
DeferredRestartStep(c) ==
    \/ pc[c] = "idle" /\ pc'[c] = "sc_exit_msg" /\ loc'[c].cb = RestartCallback
    \/ /\ pc[c] \in {"sc_exit_msg", "sc_complete", "sc_waiting", "sc_set_waiting",
                     "sc_set_callback"}
       /\ loc[c].cb = RestartCallback
       /\ pc'[c] # pc[c]

C10_ErrorBodyMessage ==
    [][/\ (/\ ExceptStep
           /\ w.dat.valid /\ ~w.dat.has_txdata /\ w.dat.has_error
           /\ w.dat.error # "") =>
              /\ pc'[Worker] = "set_failed_rest"
              /\ w'.reason = w.dat.error
       /\ SetFailedRestStep =>
              LET job == jobs'[loc[Worker].job]
              IN /\ job.job_complete
                 /\ job.search_success = "False"
                 /\ job.exit_msg = w.reason]_vars

\* the stream ended with a UTF-8 JSON object whose txdata list holds only
\* base64 entries that decode
ValidTxBody(d) ==
    /\ d.enc = "utf8" /\ d.valid /\ d.has_txdata /\ d.is_list
    /\ \A i \in 1..Len(d.txdata) : Decodes(d.txdata[i])

\* C11: when the stream has ended, neither stopped nor cancelled, with a
\* JSON object whose txdata list holds n base64 raw transactions, the worker
\* is in the loop over them or past it; past it the job is complete and
\* successful with txn_count_progress = n, and get_tx of the txid of every
\* listed transaction returns a transaction whose raw is the decoded entry.
C11_TxdataStored ==
    ValidTxBody(w.dat) =>
        /\ pc[Worker] \in {"sq_txn", "set_success_rest", "w_finally"}
        /\ pc[Worker] = "w_finally" =>
               LET job == jobs[loc[Worker].job]
                   txdata == w.dat.txdata
               IN /\ job.job_complete
                  /\ job.search_success = "True"
                  /\ job.txn_count_progress = Len(txdata)
                  /\ \A i \in 1..Len(txdata) :
                         LET raw == B64Decode(txdata[i])
                         IN get_tx(job, _txid(raw)).tx.raw = raw

\* a job has succeeded on a body with a full txdata list
C11_Witness ==
    /\ pc[Worker] = "w_finally"
    /\ ValidTxBody(w.dat)
    /\ Len(w.dat.txdata) = MaxTxns
    /\ jobs[loc[Worker].job].search_success = "True"
    /\ jobs[loc[Worker].job].txn_count_progress = MaxTxns

\* the step is the worker's check after a chunk
ChunkCheckStep == pc[Worker] = "sq_chunk_check" /\ pc'[Worker] # "sq_chunk_check"

\* C12: when the validation job's running flag is false at the check that
\* follows a received chunk, the worker leaves the stream in that step and
\* calls set_failed('validation job stopped'), which leaves the job
\* complete, not successful, with that exit_msg; and a job that is complete
\* or being failed receives no further chunk.
C12_StopMidStream ==
    [][/\ (ChunkCheckStep /\ ~valjob[jobs[loc[Worker].job].valjob].running) =>
              /\ pc'[Worker] = "set_failed_rest"
              /\ w'.reason = "validation job stopped"
              /\ w'.then = "w_finally"
       /\ (SetFailedRestStep /\ w.reason = "validation job stopped") =>
              LET job == jobs'[loc[Worker].job]
              IN /\ job.job_complete
                 /\ job.search_success = "False"
                 /\ job.exit_msg = "validation job stopped"
                 /\ pc'[Worker] = "w_finally"
       /\ \A j \in 1..Len(jobs) :
              jobs[j].job_complete =>
                  jobs'[j].gs_response_size = jobs[j].gs_response_size
       /\ (pc'[Worker] = "sq_chunk_check" /\ pc[Worker] # "sq_chunk_check") =>
              /\ ~jobs[loc[Worker].job].job_complete
              /\ jobs[loc[Worker].job].search_success = "None"]_vars

\* the validation job was stopped while its response was streaming: the
\* job failed after the chunk it had received and the worker has gone on
C12_Witness ==
    \E j \in JobIds :
        /\ jobs[j].completed_by = <<"set_failed">>
        /\ jobs[j].exit_msg = "validation job stopped"
        /\ jobs[j].gs_response_size > 0
        /\ ~valjob[jobs[j].valjob].has_never_run
        /\ pc[Worker] = "w_get"

\* C13: a callback that a sched_cancel call has stored in cancel_callback is
\* never replaced by the callback of another call, and the one callback
\* invoked when the job is cancelled is the stored one.
C13_FirstCallbackStays ==
    [][\A j \in 1..Len(jobs) :
          /\ jobs[j].cancel_callback # "None" =>
                 jobs'[j].cancel_callback = jobs[j].cancel_callback
          /\ jobs'[j].cb_calls # jobs[j].cb_calls =>
                 jobs'[j].cb_calls = <<jobs[j].cancel_callback>>]_vars

\* the step is a get_tx(key) call, and e the record of what it returned
GetTxStep(key) ==
    /\ Len(tx_log') = Len(tx_log) + 1
    /\ tx_log'[Len(tx_log')].op = "get"
    /\ tx_log'[Len(tx_log')].txid = key

\* the time of the latest put_tx of key, or get_tx of key within 1800
\* seconds of the one before, among the first n calls; -1 when key was
\* never put
RECURSIVE LastTouch(_, _, _)
LastTouch(log, key, n) ==
    IF n = 0 THEN -1
    ELSE LET e == log[n]
             before == LastTouch(log, key, n - 1)
         IN IF e.txid # key \/ e.op = "put_raised" THEN before
            ELSE IF e.op = "put" THEN e.at
            ELSE IF before >= 0 /\ e.at - before <= 1800 THEN e.at
            ELSE before

\* the transaction of the latest put_tx of key among the first n calls
RECURSIVE LastPut(_, _, _)
LastPut(log, key, n) ==
    IF n = 0 THEN NoTx
    ELSE IF log[n].op = "put" /\ log[n].txid = key THEN log[n].tx
    ELSE LastPut(log, key, n - 1)

\* key was stored by put_tx and has not expired
Live(key) ==
    LET t == LastTouch(tx_log, key, Len(tx_log))
    IN t >= 0 /\ clock - t <= 1800

\* the objects of the calls so far: those put and those get_tx returned
ObjectsSoFar == {tx_log[i].tx.obj : i \in 1..Len(tx_log)}

\* what C14 says of a get_tx(key) step when key is stored with transaction
\* cached, and when it is not stored
FreshCopy(key, cached) ==
    LET e == tx_log'[Len(tx_log')]
    IN /\ e.tx # NoTx
       /\ e.tx.raw = cached.raw
       /\ e.tx.obj # cached.obj
       /\ e.tx.obj \notin ObjectsSoFar
       /\ key \in DOMAIN jobs'[1].txdata
       /\ jobs'[1].txdata[key].value = cached

\* C14 as stated: every get_tx of a txid that put_tx stored and that has
\* not expired returns a new transaction object, not the cached one and not
\* one returned before, with the cached raw content, and leaves the cached
\* transaction as it was; get_tx of a txid never stored returns None.
C14_FreshCopyOfAnyEntry ==
    [][\A key \in TxKeys :
          GetTxStep(key) =>
              LET cached == LastPut(tx_log, key, Len(tx_log))
              IN /\ Live(key) => FreshCopy(key, cached)
                 /\ cached = NoTx => tx_log'[Len(tx_log')].tx = NoTx]_vars

\* C14 amended: the same for every txid stored with a transaction that has
\* raw content; get_tx of a txid stored with a transaction without raw
\* content returns None, as for a txid never stored.
C14_FreshCopyOfRawEntry ==
    [][\A key \in TxKeys :
          GetTxStep(key) =>
              LET cached == LastPut(tx_log, key, Len(tx_log))
              IN /\ (Live(key) /\ cached.raw # NoRaw) => FreshCopy(key, cached)
                 /\ (cached = NoTx \/ cached.raw = NoRaw) =>
                        tx_log'[Len(tx_log')].tx = NoTx]_vars

\* a transaction was put and get_tx has returned two copies of it
C14_Witness ==
    /\ Len(tx_log) = 3
    /\ tx_log[1].op = "put" /\ tx_log[1].tx.raw = "rawA"
    /\ tx_log[2].op = "get" /\ tx_log[2].tx.raw = "rawA"
    /\ tx_log[3].op = "get" /\ tx_log[3].tx.raw = "rawA"
    /\ tx_log[2].tx.obj # tx_log[3].tx.obj

\* C15: get_tx of a txid returns None once more than 1800 seconds have
\* passed since the entry was put or last read.
C15_EntryExpires ==
    [][\A key \in TxKeys :
          (/\ GetTxStep(key)
           /\ LastTouch(tx_log, key, Len(tx_log)) >= 0
           /\ clock - LastTouch(tx_log, key, Len(tx_log)) > 1800) =>
              tx_log'[Len(tx_log')].tx = NoTx]_vars

\* an entry was read 900 seconds after it was put, and read again 1801
\* seconds after that read: None
C15_Witness ==
    /\ Len(tx_log) = 3
    /\ tx_log[1].op = "put" /\ tx_log[1].txid = "idA" /\ tx_log[1].at = 0
    /\ tx_log[2].op = "get" /\ tx_log[2].txid = "idA" /\ tx_log[2].at = 900
    /\ tx_log[2].tx.raw = "rawA"
    /\ tx_log[3].op = "get" /\ tx_log[3].txid = "idA" /\ tx_log[3].at = 2701
    /\ tx_log[3].tx = NoTx

\* C16: in every state of every job search_success is None exactly when
\* job_complete is false; it is True only in a job completed by
\* set_success, and False only in a job completed by set_failed or _cancel.
C16_SuccessTracksComplete ==
    \A j \in JobIds :
        /\ jobs[j].search_success = "None" <=> ~jobs[j].job_complete
        /\ jobs[j].search_success = "True" =>
               jobs[j].completed_by = <<"set_success">>
        /\ jobs[j].search_success = "False" =>
               jobs[j].completed_by \in {<<"set_failed">>, <<"_cancel">>}

\* C17: whenever the worker is about to take the next job from the queue,
\* it has signalled the wakeup of the validation job of every job it took
\* before, whatever the outcome of that job.
C17_WakeupAfterEveryJob ==
    pc[Worker] = "w_get" => \A i \in 1..Len(deq_log) : deq_log[i] \in Range(wakeup_log)

\* C18: an entry of search_jobs is taken out only by the pop of the restart
\* callback, for the root_txid of the job being restarted; no other step
\* (completion, new_search, sched_cancel) takes one out or replaces one, so
\* a complete job that is not restarted stays registered; and an entry is
\* put in only by new_search, for a txid that has none.
C18_RemovedOnlyByRestart ==
    [][\A x \in Txids :
          /\ (search_jobs[x] # NoJob /\ search_jobs'[x] # search_jobs[x]) =>
                 /\ search_jobs'[x] = NoJob
                 /\ \E t \in Threads :
                        /\ CallbackPops(t)
                        /\ loc[t].incb
                        /\ jobs[loc[t].job].root_txid = x
          /\ (search_jobs[x] = NoJob /\ search_jobs'[x] # NoJob) =>
                 \E t \in Threads : pc[t] = "ns_new" /\ loc[t].txid = x]_vars

\* a job has completed without being restarted and is still registered
\* while the worker has gone on to the job queued after it
C18_Witness ==
    \E j \in JobIds :
        /\ jobs[j].job_complete
        /\ search_jobs[jobs[j].root_txid] = j
        /\ loc[Worker].job > j
        /\ pc["c1"] = "idle" /\ pc["c2"] = "idle"

\* the step is one of caller thread c inside sched_cancel, its call included
SchedCancelStep(c) ==
    /\ pc'[c] # pc[c]
    /\ \/ pc'[c] = "sc_exit_msg"
       \/ pc[c] \in {"sc_exit_msg", "sc_complete", "sc_waiting", "sc_set_waiting",
                     "sc_set_callback"}

\* C19: no step of sched_cancel changes job_complete or search_success of a
\* job or invokes a callback; and the step in which a job becomes complete
\* is a step of the worker on the job it holds, in _cancel, set_failed or
\* set_success.
C19_CancelOnlyRequests ==
    [][/\ \A c \in Callers :
            SchedCancelStep(c) =>
                /\ Len(jobs') = Len(jobs)
                /\ \A j \in 1..Len(jobs) :
                       /\ jobs'[j].job_complete = jobs[j].job_complete
                       /\ jobs'[j].search_success = jobs[j].search_success
                       /\ jobs'[j].cb_calls = jobs[j].cb_calls
       /\ \A j \in 1..Len(jobs) :
            (~jobs[j].job_complete /\ jobs'[j].job_complete) =>
                /\ loc[Worker].job = j
                /\ pc[Worker] \in {"sq_cancel", "sq_chunk_check", "set_failed_rest",
                                   "set_success_rest"}
                /\ pc'[Worker] # pc[Worker]
                /\ \A c \in Callers : pc'[c] = pc[c]]_vars

\* a sched_cancel call has returned: the request and its callback are
\* stored, the job is not complete and no callback was invoked
C19_Witness ==
    \E j \in JobIds :
        /\ jobs[j].waiting_to_cancel
        /\ jobs[j].cancel_callback = "cbA"
        /\ jobs[j].exit_msg = "job canceled"
        /\ ~jobs[j].job_complete
        /\ jobs[j].search_success = "None"
        /\ jobs[j].cb_calls = <<>>
        /\ pc["c1"] = "idle" /\ pc["c2"] = "idle"

\* C20: with a worker that keeps running and streams that end, every job
\* that was put on search_queue is eventually taken by the worker and
\* complete, with search_success True or False.
C20_EveryJobCompletes ==
    \A j \in 1..(MaxCalls + 1) :
        (j \in Range(queue_log)) ~>
            (/\ j \in Range(deq_log)
             /\ jobs[j].job_complete
             /\ jobs[j].search_success \in {"True", "False"})

\* two jobs were queued, the worker has taken and finished both, one
\* successfully, and waits for the next
C20_Witness ==
    /\ queue_log = <<1, 2>>
    /\ deq_log = <<1, 2>>
    /\ jobs[1].job_complete /\ jobs[1].search_success = "True"
    /\ jobs[2].job_complete /\ jobs[2].search_success \in {"True", "False"}
    /\ pc[Worker] = "w_get"

\* the reasons sched_cancel is called with
CancelReasons == {"job canceled", "job restarted"}

\* the step is the worker testing waiting_to_cancel: line 182, or line 207,
\* which is reached when the test of line 204 has found the validation job
\* running
CancelCheckStep ==
    \/ pc[Worker] = "sq_cancel" /\ pc'[Worker] # "sq_cancel"
    \/ /\ ChunkCheckStep
       /\ valjob[jobs[loc[Worker].job].valjob].running

\* the callbacks of the sched_cancel calls that have set waiting_to_cancel
\* of job j: the one stored, and the one of a call between lines 67 and 68
CallbacksGiven(j) ==
    ({jobs[j].cancel_callback}
        \cup {loc[c].cb : c \in {d \in Callers : pc[d] = "sc_set_callback"
                                                  /\ loc[d].job = j}})
    \ {"None"}

\* C21: when waiting_to_cancel of the job is set at a cancellation check of
\* the worker, the worker runs _cancel in that step; when _cancel is over
\* the job is complete, not successful, its exit_msg is a reason given to
\* sched_cancel, and the callback of every sched_cancel call that has set
\* the flag was invoked.
C21_CancelAtCheckPoint ==
    [][/\ (CancelCheckStep /\ jobs[loc[Worker].job].waiting_to_cancel) =>
              /\ pc'[Worker] = "_cancel_rest"
              /\ jobs'[loc[Worker].job].completed_by = <<"_cancel">>
       /\ (pc[Worker] = "_cancel_rest" /\ pc'[Worker] # "_cancel_rest") =>
              LET j == loc[Worker].job
              IN /\ jobs'[j].job_complete
                 /\ jobs'[j].search_success = "False"
                 /\ jobs'[j].exit_msg \in CancelReasons
                 /\ CallbacksGiven(j) \subseteq Range(jobs'[j].cb_calls)]_vars

\* the step is the worker's test of line 162 on the job it has just taken
DequeueTestStep == pc[Worker] = "w_running" /\ pc'[Worker] # "w_running"

\* the step is the worker posting the request of line 195 for job j
PostStep(j) == ~jobs[j].posted /\ jobs'[j].posted

RestartDeferred(j) ==
    \E c \in Callers :
        /\ pc[c] = "sc_exit_msg"
        /\ loc[c].cb = RestartCallback
        /\ loc[c].job = j

\* job j is out of search_jobs and a newer job of its root_txid is
\* registered and was put on the queue
Restarted(j) ==
    /\ j \in JobIds
    /\ LET k == search_jobs[jobs[j].root_txid]
       IN /\ k # NoJob
          /\ k > j
          /\ jobs[k].valjob = jobs[j].valjob
          /\ k \in Range(queue_log)

\* C23: with a worker and callers that keep running and streams that end,
\* a restart_search call that has found the job not complete is followed by
\* the job's removal from search_jobs and by the registration and the
\* enqueueing of a new job for the same root_txid.
C23_RestartHappens ==
    \A j \in 1..(MaxCalls + 1) : RestartDeferred(j) ~> Restarted(j)

\* the jobs being fetched: a request was posted and the job is not complete
Fetching == {j \in JobIds : jobs[j].posted /\ ~jobs[j].job_complete}

\* C24: every job the worker has taken from the queue, other than the one
\* it holds, is complete; when the worker is about to take a job, every job
\* it took before is complete; and at most one job is being fetched, the
\* one the worker holds.
C24_OneAtATime ==
    /\ \A i \in 1..Len(deq_log) :
           (deq_log[i] # loc[Worker].job \/ pc[Worker] = "w_get") =>
               jobs[deq_log[i]].job_complete
    /\ Cardinality(Fetching) <= 1
    /\ Fetching \subseteq {loc[Worker].job}

\* the worker has taken a second job and fetches it; the first is complete
\* after a fetch of its own
C24_Witness ==
    /\ Len(deq_log) = 2
    /\ jobs[deq_log[1]].job_complete
    /\ jobs[deq_log[1]].posted
    /\ jobs[deq_log[1]].gs_response_size > 0
    /\ Fetching = {deq_log[2]}
    /\ pc[Worker] = "sq_chunk_check"

\* the threads inside a `with self.lock` block (lines 137-143, line 149)
InsideLock == {t \in Threads : pc[t] \in {"ns_check", "ns_new", "ns_old", "cb_pop"}}

\* at most one thread is inside a with block, and it is the holder
LockExcludes ==
    /\ Cardinality(InsideLock) <= 1
    /\ lock = "free" <=> InsideLock = {}
    /\ lock # "free" => InsideLock = {lock}

\* C25: an entry of search_jobs is put in by a thread at line 139 of
\* new_search and taken out by a thread at line 149 of the restart
\* callback, in a step of the thread that holds the lock; no other step
\* changes search_jobs; and never are two threads inside a with block.
C25_RegistryUnderLock ==
    [][/\ \A x \in Txids :
            search_jobs'[x] # search_jobs[x] =>
                \E t \in Threads :
                    /\ lock = t
                    /\ pc'[t] # pc[t]
                    /\ pc[t] = IF search_jobs[x] = NoJob THEN "ns_new" ELSE "cb_pop"
                    /\ \A u \in Threads \ {t} : pc'[u] = pc[u]
       /\ LockExcludes
       /\ LockExcludes']_vars

\* the worker runs the restart callback inside _cancel and holds the lock
\* at the pop of the entry of the cancelled job
C25_Witness ==
    /\ pc[Worker] = "cb_pop"
    /\ lock = Worker
    /\ loc[Worker].job # NoJob
    /\ jobs[loc[Worker].job].completed_by = <<"_cancel">>
    /\ search_jobs[jobs[loc[Worker].job].root_txid] = loc[Worker].job

\* the sum of gs_response_size over the jobs of js
RECURSIVE ResponseSizes(_)
ResponseSizes(js) ==
    IF js = <<>> THEN 0 ELSE Head(js).gs_response_size + ResponseSizes(Tail(js))

\* C26 as stated: in every state data_totalizer is the sum of
\* gs_response_size over all jobs constructed so far.
C26_TotalIsSumAlways == data_totalizer = ResponseSizes(jobs)

\* C26 amended: data_totalizer is the sum of gs_response_size over all jobs
\* constructed so far, except while the worker is between lines 197 and 198,
\* where the sum is ahead by the length of the chunk being counted; both
\* change only in steps of the worker while it streams the response of the
\* job it holds, and neither ever decreases.
C26_TotalIsSum ==
    [][/\ data_totalizer + w.len = ResponseSizes(jobs)
       /\ data_totalizer' + w'.len = ResponseSizes(jobs')
       /\ pc[Worker] # "sq_chunk_total" => w.len = 0
       /\ data_totalizer' # data_totalizer =>
              /\ pc[Worker] = "sq_chunk_total"
              /\ pc'[Worker] = "sq_chunk_check"
              /\ data_totalizer' = data_totalizer + w.len
              /\ w.len > 0
              /\ jobs[loc[Worker].job].posted
              /\ \A c \in Callers : pc'[c] = pc[c]
       /\ \A j \in 1..Len(jobs) :
              jobs'[j].gs_response_size # jobs[j].gs_response_size =>
                  /\ pc[Worker] = "sq_iter"
                  /\ loc[Worker].job = j
                  /\ jobs'[j].gs_response_size > jobs[j].gs_response_size]_vars

\* a job that streamed a chunk was restarted and is out of the registry,
\* its successor has streamed a chunk too: the total counts both
C26_Witness ==
    \E j, k \in JobIds :
        /\ j < k
        /\ jobs[j].root_txid = jobs[k].root_txid
        /\ search_jobs[jobs[j].root_txid] = k
        /\ jobs[j].gs_response_size > 0
        /\ jobs[k].gs_response_size > 0
        /\ data_totalizer = jobs[j].gs_response_size + jobs[k].gs_response_size
        /\ pc[Worker] = "sq_chunk_check"

\* C27: in every state a job whose search_success is True has exit_msg
\* None.
C27_NoExitMsgOnSuccess ==
    \A j \in JobIds : jobs[j].search_success = "True" => jobs[j].exit_msg = "None"

\* the step is a sched_cancel call writing exit_msg of job j
SchedCancelWrites(j) ==
    /\ jobs'[j].exit_msg # jobs[j].exit_msg
    /\ \E c \in Callers : pc[c] = "sc_exit_msg" /\ pc'[c] # pc[c] /\ loc[c].job = j

\* C28: a sched_cancel call writes exit_msg only when waiting_to_cancel of
\* the job is not set: a call on a job whose waiting_to_cancel is set leaves
\* exit_msg at the reason of the first call.
C28_ReasonOfFirstCall ==
    [][\A j \in 1..Len(jobs) :
          SchedCancelWrites(j) => ~jobs[j].waiting_to_cancel]_vars

\* every entry of the txdata list of body d is in the job's cache, decoded,
\* under its txid
AllStored(job, d) ==
    \A i \in 1..Len(d.txdata) :
        LET raw == B64Decode(d.txdata[i])
        IN /\ _txid(raw) \in DOMAIN job.txdata
           /\ job.txdata[_txid(raw)].value.raw = raw

\* what C29 says of a step
SuccessOnlyAfterAll ==
    /\ \A j \in 1..Len(jobs) :
         /\ (jobs[j].search_success # "True" /\ jobs'[j].search_success = "True") =>
                /\ loc[Worker].job = j
                /\ pc[Worker] = "sq_txn"
                /\ w.txns = <<>>
                /\ w.exc = "None"
                /\ w.dat.enc = "utf8" /\ w.dat.valid /\ w.dat.has_txdata
                /\ w.dat.is_list
                /\ \A i \in 1..Len(w.dat.txdata) : w.dat.txdata[i] # "bad"
                /\ jobs[j].txn_count_progress = Len(w.dat.txdata)
                /\ AllStored(jobs[j], w.dat)
                /\ jobs[j].posted
                /\ ~jobs[j].job_complete
                /\ jobs[j].search_success = "None"
         /\ (jobs[j].search_success = "False" \/ jobs[j].job_complete) =>
                jobs'[j].search_success = jobs[j].search_success
                \/ (jobs[j].search_success = "None" /\ jobs'[j].search_success = "False")
    /\ (/\ ChunkCheckStep
        /\ \/ ~valjob[jobs[loc[Worker].job].valjob].running
           \/ jobs[loc[Worker].job].waiting_to_cancel) =>
           /\ pc'[Worker] \in {"set_failed_rest", "_cancel_rest"}
           /\ \/ jobs'[loc[Worker].job].search_success = "False"
              \/ jobs'[loc[Worker].job].job_complete
    /\ (pc[Worker] = "sq_iter" /\ pc'[Worker] \notin {"sq_iter", "sq_chunk_total"}) =>
           IF w'.dat.enc = "utf8" /\ w'.dat.valid /\ w'.dat.has_txdata
           THEN pc'[Worker] = "sq_txn" /\ w'.txns = w'.dat.txdata
           ELSE pc'[Worker] = "w_except" /\ w'.exc # "None"
    /\ (pc[Worker] = "w_except" /\ pc'[Worker] # "w_except") =>
           jobs'[loc[Worker].job].search_success = "False"

\* C29: search_success becomes True only in a step of the worker past the
\* loop of lines 218-221, for the job it holds, when the stream has ended,
\* the body is a JSON object with a txdata list and every entry of the list
\* was decoded and stored; a chunk check that finds the validation job
\* stopped or a cancel pending abandons the stream, a body that fails to
\* parse raises, and a job that was abandoned or has failed never gets
\* search_success True.
C29_SuccessOnlyAfterList == [][SuccessOnlyAfterAll]_vars

\* C30: the worker sets the wakeup of a validation job only in the finally
\* block, on behalf of the job it holds, and that job is then complete with
\* search_success True or False.
C30_WakeupAfterComplete ==
    [][wakeup_log' # wakeup_log =>
          LET j == loc[Worker].job
          IN /\ pc[Worker] = "w_finally"
             /\ j # NoJob
             /\ wakeup_log' = Append(wakeup_log, j)
             /\ jobs[j].job_complete
             /\ jobs[j].search_success \in {"True", "False"}
             /\ jobs'[j] = jobs[j]]_vars

\* the wakeup was set for a job that succeeded and for a job that was
\* cancelled and restarted
C30_Witness ==
    /\ Len(wakeup_log) = 2
    /\ \E i, k \in 1..2 :
           /\ jobs[wakeup_log[i]].completed_by = <<"set_success">>
           /\ jobs[wakeup_log[k]].completed_by = <<"_cancel">>
           /\ jobs[wakeup_log[k]].cb_calls = <<RestartCallback>>

\* C31: the pop of the restart callback of restart_search(job) takes out of
\* search_jobs no job other than the one passed: an entry that holds a
\* different job is left as it is.
C31_PopsOnlyOwnJob ==
    [][\A t \in Threads :
          CallbackPops(t) =>
              \A x \in Txids :
                  search_jobs[x] \notin {NoJob, loc[t].job} =>
                      search_jobs'[x] = search_jobs[x]]_vars

\* the threads waiting at a `with self.lock` (lines 136 and 148)
AtLock == {t \in Threads : pc[t] \in {"ns_lock", "cb_lock"}}

\* thread t has a step to take
CanStep(t) == IF t = Worker THEN ENABLED WorkerStep ELSE ENABLED CallerStepOf(t)

\* thread t is between two operations: a caller thread that is not inside a
\* call, the worker in search_queue.get on an empty queue
AtRest(t) == IF t = Worker THEN pc[t] = "w_get" /\ search_queue = <<>>
             ELSE pc[t] = "idle"

\* C32: no thread waits for the lock while it holds it; the holder of the
\* lock is inside a with block and has a step to take, and its step out of
\* the block (the put on the queue included) frees the lock; every thread
\* inside an operation has a step to take unless it waits for the lock that
\* another thread holds.
C32_NoDeadlock ==
    [][/\ \A t \in AtLock : lock # t
       /\ lock # "free" => (lock \in InsideLock /\ CanStep(lock))
       /\ \A t \in Threads :
              (pc[t] \in {"ns_new", "ns_old", "cb_pop"} /\ pc'[t] # pc[t]) =>
                  (lock = t /\ lock' = "free")
       /\ \A t \in Threads :
              ~AtRest(t) => (CanStep(t) \/ (t \in AtLock /\ lock \notin {"free", t}))]_vars

\* the worker runs the restart callback inside _cancel: it has popped the
\* entry and left the with block of line 148, has taken the lock again in
\* new_search and is about to put the new job on the queue
C32_Witness ==
    /\ pc[Worker] = "ns_new"
    /\ loc[Worker].incb
    /\ lock = Worker
    /\ jobs[loc[Worker].job].completed_by = <<"_cancel">>
    /\ search_jobs[jobs[loc[Worker].job].root_txid] = NoJob

\* C33: when at the check after a chunk the validation job is not running
\* and waiting_to_cancel is set, the worker calls
\* set_failed('validation job stopped') and not _cancel; that call leaves
\* the job complete by set_failed, not successful, with no callback invoked;
\* and no callback is ever invoked for a job that set_failed completed.
C33_StopBeforeCancel ==
    [][/\ (/\ ChunkCheckStep
           /\ ~valjob[jobs[loc[Worker].job].valjob].running
           /\ jobs[loc[Worker].job].waiting_to_cancel) =>
              LET job == jobs'[loc[Worker].job]
              IN /\ pc'[Worker] = "set_failed_rest"
                 /\ w'.reason = "validation job stopped"
                 /\ job.completed_by = <<>>
                 /\ job.cb_calls = <<>>
       /\ (SetFailedRestStep /\ w.reason = "validation job stopped") =>
              LET job == jobs'[loc[Worker].job]
              IN /\ job.job_complete
                 /\ job.search_success = "False"
                 /\ job.completed_by = <<"set_failed">>
                 /\ job.cb_calls = <<>>
       /\ \A j \in 1..Len(jobs) :
              jobs[j].completed_by = <<"set_failed">> =>
                  /\ jobs'[j].completed_by = <<"set_failed">>
                  /\ jobs'[j].cb_calls = <<>>]_vars

\* a cancellation with a callback was requested for a job whose response
\* was streaming, and the validation job was stopped: the job failed at the
\* check after the chunk, the callback is still stored and was not invoked
C33_Witness ==
    \E j \in JobIds :
        /\ jobs[j].completed_by = <<"set_failed">>
        /\ jobs[j].gs_response_size > 0
        /\ jobs[j].waiting_to_cancel
        /\ jobs[j].cancel_callback # "None"
        /\ jobs[j].cb_calls = <<>>
        /\ ~valjob[jobs[j].valjob].running
        /\ pc[Worker] = "w_get"
        /\ pc["c1"] = "idle" /\ pc["c2"] = "idle"

\* C34: a new_search call that returns while the job registered for the
\* root_txid is complete returns that job, still complete, and constructs,
\* registers and enqueues nothing; a job is constructed only for a
\* root_txid that has no entry in search_jobs; and no job is taken from the
\* queue twice.
C34_CompleteJobReturned ==
    [][/\ \A t \in Threads, x \in Txids :
            (/\ NewSearchReturns(t, x)
             /\ search_jobs[x] # NoJob
             /\ jobs[search_jobs[x]].job_complete) =>
                /\ ret' = search_jobs[x]
                /\ jobs' = jobs
                /\ search_jobs' = search_jobs
                /\ search_queue' = search_queue
                /\ queue_log' = queue_log
       /\ Len(jobs') > Len(jobs) =>
              /\ Len(jobs') = Len(jobs) + 1
              /\ search_jobs[jobs'[Len(jobs')].root_txid] = NoJob
       /\ \A j \in 1..Len(jobs') : Count(deq_log', j) <= 1]_vars

\* a job has succeeded and stays registered; a second new_search for its
\* root_txid has found the entry and is about to return the job
C34_Witness ==
    \E c \in Callers :
        /\ pc[c] = "ns_old"
        /\ ~loc[c].incb
        /\ search_jobs[loc[c].txid] = 1
        /\ jobs[1].completed_by = <<"set_success">>
        /\ deq_log = <<1>>
        /\ search_queue = <<>>
        /\ pc[Worker] = "w_get"

\* C35: every job that is complete, by set_success, set_failed or _cancel,
\* has search_started true, and so has every job a completing method has
\* begun to write.
C35_CompleteImpliesStarted ==
    \A j \in JobIds :
        /\ jobs[j].job_complete => jobs[j].search_started
        /\ jobs[j].search_success # "None" => jobs[j].search_started

\* a job was cancelled at the first test of search_query, before any
\* request, and is started by line 161 alone, while a job that was put on
\* the queue after it is neither started nor complete
C35_Witness ==
    \E j, k \in JobIds :
        /\ jobs[j].completed_by = <<"_cancel">>
        /\ ~jobs[j].posted
        /\ jobs[j].search_started
        /\ k \in Range(search_queue)
        /\ ~jobs[k].search_started
        /\ ~jobs[k].job_complete
====
